---- MODULE Spec2Model ----
(***************************************************************************)
(* Model of the oscilloscope capture pipeline (src/src/main.rs).           *)
(*                                                                         *)
(* Threads: the main/UI thread (main, then MyApp::update once per frame),  *)
(* and one backend callback thread per cpal stream.  The callback threads  *)
(* send samples on std::sync::mpsc channels; update drains the channels    *)
(* into two VecDeque windows.                                              *)
(*                                                                         *)
(* Samples are f32 in the program; the model uses small integers, so `-`   *)
(* on samples is exact.                                                    *)
(***************************************************************************)
EXTENDS Integers, Sequences, FiniteSets, TLC

(***************************************************************************)
(* Bounds of the model.                                                    *)
(***************************************************************************)
\* window capacity: 1000 in the program (main.rs:116, main.rs:124), scaled down
Capacity == 2
\* longest buffer the backend hands to one callback invocation
MaxBuf == 2
\* number of switch_source requests
MaxSwaps == 1

\* samples a source's callbacks deliver in total: enough to overflow a window
MaxSends == Capacity + 1
\* samples a channel may hold in a run whose devices deliver without end
MaxQueue == MaxBuf
\* lines the error callbacks print in one run
MaxErrors == 1

\* Samples are f32 amplitudes (main.rs:30, 47); the model holds them in units
\* of 1/Scale of full scale.
Scale == 10
\* Sample values.  update never branches on a sample's value, so two distinct
\* amplitudes are enough to tell samples apart: 0.3, which the plot shows
\* scaled, and 0.6, which it shows clamped.
Samples == {3, 6}

RECURSIVE SeqsUpTo(_)
SeqsUpTo(n) ==
    IF n = 0 THEN {<<>>}
    ELSE LET shorter == SeqsUpTo(n - 1)
         IN  shorter \cup {Append(s, x) : s \in {t \in shorter : Len(t) = n - 1}, x \in Samples}

\* the non-empty buffers a callback can be invoked with
Buffers == SeqsUpTo(MaxBuf) \ {<<>>}

(***************************************************************************)
(* enum AudioSource                                                        *)
(***************************************************************************)
AudioSource == {"Microphone", "SystemOutput"}

(***************************************************************************)
(* State.                                                                  *)
(***************************************************************************)
VARIABLES
    pc_main,       \* position of the process: main's statements, then the event loop
    sys_stream,    \* AudioStream of the system-output capture, or NoStream
    mic_stream,    \* AudioStream of the microphone capture, or NoStream
    last_open,     \* what the latest build_audio_stream call did: [source, backend, result]
    last_switch,   \* what the latest switch_source call did: [before, result]
    sys_chan,      \* samples queued on the (sys_tx, sys_rx) channel
    mic_chan,      \* samples queued on the (mic_tx, mic_rx) channel
    mic_gen,       \* which channel mic_rx is the receiver of (0 = the one main made)
    sys_cb,        \* the running system-output callback: samples of `data` not yet sent
    mic_cb,        \* the running capture callback of mic_stream: samples of `data` not yet sent
    stale_cb,      \* the running callback of a released binding: [gen, data, sent]
    pc,            \* position of update: which statement the UI thread is at
    sample,        \* update's local `sample` (0 when none is bound)
    sys_samples,   \* MyApp.sys_samples
    mic_samples,   \* MyApp.mic_samples
    res_samples,   \* the residual window
    sys_sent,      \* history: samples accepted by the channel sys_rx receives from
    mic_sent,      \* history: samples accepted by the channel mic_rx receives from
    sys_recvd,     \* history: samples try_recv returned from sys_rx
    mic_recvd,     \* history: samples try_recv returned from mic_rx
    tick0,         \* history: how the running update began
    swaps,         \* number of switch_source requests made
    live,          \* TRUE when the devices deliver without end (no history is kept then)
    stderr,        \* number of lines the error callbacks printed
    discarded,     \* history: sends that returned Err (receiver gone) and were ignored
    plotted        \* the lines the running frame handed to its plots: [sys, mic]

streams  == <<sys_stream, mic_stream, last_open, last_switch>>
chans    == <<sys_chan, mic_chan, mic_gen>>
cbs      == <<sys_cb, mic_cb, stale_cb>>
windows  == <<sys_samples, mic_samples, res_samples>>
history  == <<sys_sent, mic_sent, sys_recvd, mic_recvd>>
aux      == <<live, stderr, discarded>>
vars == <<pc_main, streams, chans, cbs, pc, sample, windows, history, tick0, swaps, aux, plotted>>

NoStream == [source |-> "none", state |-> "none"]
\* empty: both channels were empty when update began;
\* quiet: no send was accepted since update began;
\* fresh: no sample had ever been received when update began;
\* sys_queued: samples that were queued on sys_rx when update began and are not yet received
NoTick   == [empty |-> FALSE, quiet |-> FALSE, fresh |-> FALSE, sys_queued |-> 0]
NoCb     == [gen |-> 0, data |-> <<>>, sent |-> 0]
\* nothing has been drawn in this frame yet
NoPlot   == [sys |-> <<>>, mic |-> <<>>]

(***************************************************************************)
(* build_audio_stream                                                      *)
(***************************************************************************)
\* What the audio backend answers during one build_audio_stream call, in the
\* order the function asks: no default device (default_*_device() is None); a
\* device whose default_*_config() is Err; a device and configuration for
\* which build_input_stream is Err; or all three succeed.
Backends == {"no_device", "no_config", "build_rejected", "ok"}

\* The outcome of build_audio_stream(source, tx) under backend answer b:
\* "Panic" when expect() meets None (main.rs:25, 42), "Err" when a `?` meets
\* Err (main.rs:26, 37, 43, 54), else "Ok" (main.rs:39, 56).  Both arms of
\* the match treat their source alike.
build_audio_stream(source, b) ==
    CASE b = "no_device"      -> "Panic"
      [] b = "no_config"      -> "Err"
      [] b = "build_rejected" -> "Err"
      [] b = "ok"             -> "Ok"

\* The AudioStream value build_audio_stream returns on Ok (not yet playing).
AudioStream(source) == [source |-> source, state |-> "built"]

\* pc_main after a fallible statement of main: `?` returns Err from main,
\* a panic unwinds main, both end the process.
AfterResult(r, next) ==
    CASE r = "Ok"    -> next
      [] r = "Err"   -> "exit_err"
      [] r = "Panic" -> "panicked"

\* The process ended: every value main owned is dropped.
Dropped(s, r) == IF r = "Ok" THEN s ELSE NoStream

Init ==
    /\ pc_main = "build_sys"
    /\ sys_stream = NoStream
    /\ mic_stream = NoStream
    /\ last_open = [source |-> "none", backend |-> "ok", result |-> "none"]
    /\ last_switch = [before |-> "none", result |-> "none"]
    /\ sys_chan = <<>>
    /\ mic_chan = <<>>
    /\ mic_gen = 0
    /\ sys_cb = <<>>
    /\ mic_cb = <<>>
    /\ stale_cb = NoCb
    /\ pc = "not_started"
    /\ sample = 0
    /\ sys_samples = <<>>
    /\ mic_samples = <<>>
    /\ res_samples = <<>>
    /\ sys_sent = <<>>
    /\ mic_sent = <<>>
    /\ sys_recvd = <<>>
    /\ mic_recvd = <<>>
    /\ tick0 = NoTick
    /\ swaps = 0
    /\ live = FALSE
    /\ stderr = 0
    /\ discarded = 0
    /\ plotted = NoPlot

\* main.rs:65  let mut sys_stream = build_audio_stream(AudioSource::SystemOutput, sys_tx.clone())?;
MainBuildSys ==
    /\ pc_main = "build_sys"
    /\ \E b \in Backends :
         LET r == build_audio_stream("SystemOutput", b) IN
         /\ last_open' = [source |-> "SystemOutput", backend |-> b, result |-> r]
         /\ sys_stream' = Dropped(AudioStream("SystemOutput"), r)
         /\ pc_main' = AfterResult(r, "build_mic")
    /\ UNCHANGED <<mic_stream, last_switch, chans, cbs, pc, sample, windows, history, tick0, swaps, aux, plotted>>

\* main.rs:66  let mut mic_stream = build_audio_stream(AudioSource::Microphone, mic_tx.clone())?;
MainBuildMic ==
    /\ pc_main = "build_mic"
    /\ \E b \in Backends :
         LET r == build_audio_stream("Microphone", b) IN
         /\ last_open' = [source |-> "Microphone", backend |-> b, result |-> r]
         /\ mic_stream' = Dropped(AudioStream("Microphone"), r)
         /\ sys_stream' = Dropped(sys_stream, r)
         /\ pc_main' = AfterResult(r, "play_sys")
    /\ UNCHANGED <<last_switch, chans, cbs, pc, sample, windows, history, tick0, swaps, aux, plotted>>

\* main.rs:68  sys_stream.stream.play()?;
MainPlaySys ==
    /\ pc_main = "play_sys"
    /\ \E ok \in BOOLEAN :
         LET r == IF ok THEN "Ok" ELSE "Err" IN
         /\ sys_stream' = Dropped([sys_stream EXCEPT !.state = "playing"], r)
         /\ mic_stream' = Dropped(mic_stream, r)
         /\ pc_main' = AfterResult(r, "play_mic")
    /\ UNCHANGED <<last_open, last_switch, chans, cbs, pc, sample, windows, history, tick0, swaps, aux, plotted>>

\* main.rs:69  mic_stream.stream.play()?;
\* On Err the playing sys_stream is dropped; its running callback, if any, is
\* left to finish against a channel whose receiver is gone.
MainPlayMic ==
    /\ pc_main = "play_mic"
    /\ \E ok \in BOOLEAN :
         LET r == IF ok THEN "Ok" ELSE "Err" IN
         /\ mic_stream' = Dropped([mic_stream EXCEPT !.state = "playing"], r)
         /\ sys_stream' = Dropped(sys_stream, r)
         /\ pc_main' = AfterResult(r, "run_native")
    /\ UNCHANGED <<last_open, last_switch, chans, cbs, pc, sample, windows, history, tick0, swaps, aux, plotted>>

\* main.rs:77-90  eframe::run_native(.., MyApp { .., sys_samples: VecDeque::new(), .. })
MainRunNative ==
    /\ pc_main = "run_native"
    /\ pc_main' = "running"
    /\ pc' = "idle"
    /\ sys_samples' = <<>>
    /\ mic_samples' = <<>>
    /\ res_samples' = <<>>
    /\ UNCHANGED <<streams, chans, cbs, sample, history, tick0, swaps, aux, plotted>>

(***************************************************************************)
(* std::sync::mpsc channel, as the program uses it                         *)
(***************************************************************************)
\* a send on a channel of capacity one (sync_channel(1), try_send): a sample
\* that finds the channel occupied is dropped
SendIfRoom(ch, s, connected) == IF connected /\ ch = <<>> THEN Append(ch, s) ELSE ch

\* tx.send(sample): queues the sample; when the receiver has been dropped it
\* returns Err and queues nothing.  The callbacks discard the result (`let _ =`).
Send(ch, s, connected) == IF connected THEN Append(ch, s) ELSE ch

\* a try_recv that hands out the newest queued sample
try_recv_newest(ch) ==
    IF ch = <<>> THEN [ok |-> FALSE, val |-> 0, rest |-> ch]
    ELSE [ok |-> TRUE, val |-> ch[Len(ch)], rest |-> SubSeq(ch, 1, Len(ch) - 1)]

\* rx.try_recv(): Ok(oldest queued sample), or Err(Empty) without blocking.
try_recv(ch) ==
    IF ch = <<>> THEN [ok |-> FALSE, val |-> 0, rest |-> ch]
    ELSE [ok |-> TRUE, val |-> Head(ch), rest |-> Tail(ch)]

\* The receivers sys_rx and mic_rx live in main, then in MyApp, until the
\* process ends.
ReceiversAlive == pc_main \notin {"exit_err", "panicked"}

\* history: s is appended to h, in runs that keep a history
Record(h, s) == IF live THEN h ELSE Append(h, s)

\* The backend may invoke a data callback with `data`: in a bounded run while
\* the source has delivered fewer than MaxSends samples, in an endless run
\* while the channel holds fewer than MaxQueue samples.
MayDeliver(sent, ch, data) ==
    IF live THEN Len(ch) + Len(data) <= MaxQueue
    ELSE Len(sent) + Len(data) <= MaxSends

\* history of the running update: one more sample was received from sys_rx
Received(t) == [t EXCEPT !.sys_queued = IF @ > 0 THEN @ - 1 ELSE 0]

\* history of the running update: a producer's sample was accepted meanwhile
Disturbed(t) == [t EXCEPT !.quiet = FALSE]

(***************************************************************************)
(* The capture callbacks (backend threads)                                 *)
(***************************************************************************)
\* main.rs:47  the backend invokes the system-output data callback with `data`
SysCallback ==
    /\ sys_stream.state = "playing"
    /\ sys_cb = <<>>
    /\ \E data \in Buffers :
         /\ MayDeliver(sys_sent, sys_chan, data)
         /\ sys_cb' = data
    /\ UNCHANGED <<pc_main, streams, chans, mic_cb, stale_cb, pc, sample, windows, history, tick0, swaps, aux, plotted>>

\* a callback that unwraps the result of send: it dies on the first Err
SysSendUnwrap ==
    /\ sys_cb # <<>>
    /\ sys_chan' = Send(sys_chan, Head(sys_cb), ReceiversAlive)
    /\ sys_sent' = IF ReceiversAlive THEN Record(sys_sent, Head(sys_cb)) ELSE sys_sent
    /\ discarded' = discarded
    /\ sys_cb' = IF ReceiversAlive THEN Tail(sys_cb) ELSE <<>>
    /\ tick0' = IF ReceiversAlive THEN Disturbed(tick0) ELSE tick0
    /\ UNCHANGED <<pc_main, streams, mic_chan, mic_gen, mic_cb, stale_cb, pc, sample, windows,
                   mic_sent, sys_recvd, mic_recvd, swaps, live, stderr, plotted>>

\* main.rs:48-50  for &sample in data { let _ = tx.send(sample); }  (one iteration)
SysSend ==
    /\ sys_cb # <<>>
    /\ sys_chan' = Send(sys_chan, Head(sys_cb), ReceiversAlive)
    /\ sys_sent' = IF ReceiversAlive THEN Record(sys_sent, Head(sys_cb)) ELSE sys_sent
    /\ discarded' = IF ReceiversAlive THEN discarded ELSE discarded + 1
    /\ sys_cb' = Tail(sys_cb)
    /\ tick0' = IF ReceiversAlive THEN Disturbed(tick0) ELSE tick0
    /\ UNCHANGED <<pc_main, streams, mic_chan, mic_gen, mic_cb, stale_cb, pc, sample, windows,
                   mic_sent, sys_recvd, mic_recvd, swaps, live, stderr, plotted>>

\* main.rs:30  the backend invokes the data callback of mic_stream with `data`
MicCallback ==
    /\ mic_stream.state = "playing"
    /\ mic_cb = <<>>
    /\ \E data \in Buffers :
         /\ MayDeliver(mic_sent, mic_chan, data)
         /\ mic_cb' = data
    /\ UNCHANGED <<pc_main, streams, chans, sys_cb, stale_cb, pc, sample, windows, history, tick0, swaps, aux, plotted>>

\* main.rs:31-33  for &sample in data { let _ = tx.send(sample); }  (one iteration)
MicSend ==
    /\ mic_cb # <<>>
    /\ mic_chan' = Send(mic_chan, Head(mic_cb), ReceiversAlive)
    /\ mic_sent' = IF ReceiversAlive THEN Record(mic_sent, Head(mic_cb)) ELSE mic_sent
    /\ discarded' = IF ReceiversAlive THEN discarded ELSE discarded + 1
    /\ mic_cb' = Tail(mic_cb)
    /\ tick0' = IF ReceiversAlive THEN Disturbed(tick0) ELSE tick0
    /\ UNCHANGED <<pc_main, streams, sys_chan, mic_gen, sys_cb, stale_cb, pc, sample, windows,
                   sys_sent, sys_recvd, mic_recvd, swaps, live, stderr, plotted>>

\* an error callback that gives the stream up
SysErrorStopsStream ==
    /\ sys_stream.state = "playing"
    /\ stderr < MaxErrors
    /\ stderr' = stderr + 1
    /\ sys_stream' = NoStream
    /\ UNCHANGED <<pc_main, mic_stream, last_open, last_switch, chans, cbs, pc, sample, windows,
                   history, tick0, swaps, live, discarded, plotted>>

\* main.rs:52  |err| eprintln!("Error: {:?}", err): the backend reports a
\* stream error on the system-output stream; the callback prints it
SysError ==
    /\ sys_stream.state = "playing"
    /\ stderr < MaxErrors
    /\ stderr' = stderr + 1
    /\ UNCHANGED <<pc_main, streams, chans, cbs, pc, sample, windows, history, tick0, swaps,
                   live, discarded, plotted>>

\* main.rs:35  |err| eprintln!("Error: {:?}", err) on mic_stream
MicError ==
    /\ mic_stream.state = "playing"
    /\ stderr < MaxErrors
    /\ stderr' = stderr + 1
    /\ UNCHANGED <<pc_main, streams, chans, cbs, pc, sample, windows, history, tick0, swaps,
                   live, discarded, plotted>>

(***************************************************************************)
(* MyApp::update (the UI thread, once per frame)                           *)
(***************************************************************************)
\* an eviction that lets the window grow one past its capacity (`>` for `>=`)
EvictLate(w) == IF Len(w) > Capacity THEN Tail(w) ELSE w

\* main.rs:116-118 / 124-126  if samples.len() >= 1000 { samples.pop_front(); }
Evict(w) == IF Len(w) >= Capacity THEN Tail(w) ELSE w

\* a push at the head (push_front for push_back)
PushFront(w, s) == <<s>> \o w

\* main.rs:119 / 127  samples.push_back(sample)
PushBack(w, s) == Append(w, s)

\* an update that starts every frame from empty windows
UpdateBeginClearing ==
    /\ pc_main = "running"
    /\ pc = "idle"
    /\ pc' = "sys_recv"
    /\ tick0' = [empty |-> sys_chan = <<>> /\ mic_chan = <<>>, quiet |-> TRUE,
                 fresh |-> sys_recvd = <<>> /\ mic_recvd = <<>>, sys_queued |-> Len(sys_chan)]
    /\ sys_samples' = <<>>
    /\ mic_samples' = <<>>
    /\ res_samples' = <<>>
    /\ plotted' = NoPlot
    /\ UNCHANGED <<pc_main, streams, chans, cbs, sample, history, swaps, aux>>

\* main.rs:107  eframe calls update: nothing is drawn yet in the new frame; the
\* history notes how the frame began
UpdateBegin ==
    /\ pc_main = "running"
    /\ pc = "idle"
    /\ pc' = "sys_recv"
    /\ tick0' = [empty |-> sys_chan = <<>> /\ mic_chan = <<>>, quiet |-> TRUE,
                 fresh |-> sys_recvd = <<>> /\ mic_recvd = <<>>, sys_queued |-> Len(sys_chan)]
    /\ plotted' = NoPlot
    /\ UNCHANGED <<pc_main, streams, chans, cbs, sample, windows, history, swaps, aux>>

\* a drain loop on the blocking recv(): it waits while the channel is empty
SysRecvBlocking ==
    /\ pc = "sys_recv"
    /\ sys_chan # <<>>
    /\ sample' = Head(sys_chan)
    /\ sys_chan' = Tail(sys_chan)
    /\ sys_recvd' = Record(sys_recvd, Head(sys_chan))
    /\ tick0' = Received(tick0)
    /\ pc' = "sys_evict"
    /\ UNCHANGED <<pc_main, streams, mic_chan, mic_gen, cbs, windows, sys_sent, mic_sent,
                   mic_recvd, swaps, aux, plotted>>

\* main.rs:115  while let Ok(sample) = self.sys_rx.try_recv()
SysTryRecv ==
    /\ pc = "sys_recv"
    /\ LET r == try_recv(sys_chan) IN
         IF r.ok
         THEN /\ sample' = r.val
              /\ sys_chan' = r.rest
              /\ sys_recvd' = Record(sys_recvd, r.val)
              /\ tick0' = Received(tick0)
              /\ pc' = "sys_evict"
         ELSE /\ pc' = "mic_recv"
              /\ UNCHANGED <<sample, sys_chan, sys_recvd, tick0>>
    /\ UNCHANGED <<pc_main, streams, mic_chan, mic_gen, cbs, windows, sys_sent, mic_sent,
                   mic_recvd, swaps, aux, plotted>>

\* main.rs:116-118
SysEvict ==
    /\ pc = "sys_evict"
    /\ sys_samples' = Evict(sys_samples)
    /\ pc' = "sys_push"
    /\ UNCHANGED <<pc_main, streams, chans, cbs, sample, mic_samples, res_samples, history,
                   tick0, swaps, aux, plotted>>

\* a loop body that leaves the loop after one sample (`if let` for `while let`)
SysPushOnce ==
    /\ pc = "sys_push"
    /\ sys_samples' = PushBack(sys_samples, sample)
    /\ sample' = 0
    /\ pc' = "mic_recv"
    /\ UNCHANGED <<pc_main, streams, chans, cbs, mic_samples, res_samples, history, tick0, swaps, aux, plotted>>

\* main.rs:119
SysPush ==
    /\ pc = "sys_push"
    /\ sys_samples' = PushBack(sys_samples, sample)
    /\ sample' = 0
    /\ pc' = "sys_recv"
    /\ UNCHANGED <<pc_main, streams, chans, cbs, mic_samples, res_samples, history, tick0, swaps, aux, plotted>>

\* main.rs:123  while let Ok(sample) = self.mic_rx.try_recv()
MicTryRecv ==
    /\ pc = "mic_recv"
    /\ LET r == try_recv(mic_chan) IN
         IF r.ok
         THEN /\ sample' = r.val
              /\ mic_chan' = r.rest
              /\ mic_recvd' = Record(mic_recvd, r.val)
              /\ pc' = "mic_evict"
         ELSE /\ pc' = "render"
              /\ UNCHANGED <<sample, mic_chan, mic_recvd>>
    /\ UNCHANGED <<pc_main, streams, sys_chan, mic_gen, cbs, windows, sys_sent, mic_sent,
                   sys_recvd, tick0, swaps, aux, plotted>>

\* a microphone loop that evicts from the system-output window
MicEvictSys ==
    /\ pc = "mic_evict"
    /\ sys_samples' = IF Len(mic_samples) >= Capacity /\ sys_samples # <<>>
                      THEN Tail(sys_samples) ELSE sys_samples
    /\ mic_samples' = Evict(mic_samples)
    /\ pc' = "mic_push"
    /\ UNCHANGED <<pc_main, streams, chans, cbs, sample, res_samples, history,
                   tick0, swaps, aux, plotted>>

\* main.rs:124-126
MicEvict ==
    /\ pc = "mic_evict"
    /\ mic_samples' = Evict(mic_samples)
    /\ pc' = "mic_push"
    /\ UNCHANGED <<pc_main, streams, chans, cbs, sample, sys_samples, res_samples, history,
                   tick0, swaps, aux, plotted>>

\* main.rs:127; the residual computation of the drained sample follows the push
MicPush ==
    /\ pc = "mic_push"
    /\ mic_samples' = PushBack(mic_samples, sample)
    /\ pc' = "mic_residual"
    /\ UNCHANGED <<pc_main, streams, chans, cbs, sample, sys_samples, res_samples, history,
                   tick0, swaps, aux, plotted>>

\* a residual against the newest resident system-output sample
ResidualNewest(mic, sys_window) ==
    IF sys_window = <<>> THEN mic ELSE mic - sys_window[Len(sys_window)]

\* Residual Computation (spec.md 4.4): mic minus the oldest resident
\* system-output sample, or mic unchanged when that window is empty.
Residual(mic, sys_window) == IF sys_window = <<>> THEN mic ELSE mic - Head(sys_window)

\* a residual step that appends nothing while the system-output window is empty
MicResidualNeedsSys ==
    /\ pc = "mic_residual"
    /\ res_samples' = IF sys_samples = <<>> THEN res_samples
                      ELSE PushBack(Evict(res_samples), Residual(sample, sys_samples))
    /\ sample' = 0
    /\ pc' = "mic_recv"
    /\ UNCHANGED <<pc_main, streams, chans, cbs, sys_samples, mic_samples, history, tick0, swaps, aux, plotted>>

\* spec.md 4.4 / 4.5 step 2: the residual of the sample just pushed is pushed
\* into the residual window under the eviction rule of the other windows.
MicResidual ==
    /\ pc = "mic_residual"
    /\ res_samples' = PushBack(Evict(res_samples), Residual(sample, sys_samples))
    /\ sample' = 0
    /\ pc' = "mic_recv"
    /\ UNCHANGED <<pc_main, streams, chans, cbs, sys_samples, mic_samples, history, tick0, swaps, aux, plotted>>

\* main.rs:146 / 169  (sample * 1000.0).clamp(-400.0, 400.0)
\* (samples are held in units of 1/Scale, so the product is brought back to units)
Gain == 1000
YLimit == 400
clamp(x, lo, hi) == IF x < lo THEN lo ELSE IF x > hi THEN hi ELSE x

\* main.rs:143-149 / 166-172  samples.iter().enumerate().map(|(i, &sample)| [i, y]).collect():
\* one point per resident sample, oldest first, x its index from 0
PlotPoints(samples) ==
    [i \in 1..Len(samples) |-> <<i - 1, clamp((samples[i] * Gain) \div Scale, -YLimit, YLimit)>>]

\* a rendering that stores the scaled values back into the windows
RenderInPlace ==
    /\ pc = "render"
    /\ plotted' = [sys |-> PlotPoints(sys_samples), mic |-> PlotPoints(mic_samples)]
    /\ sys_samples' = [i \in 1..Len(sys_samples) |-> plotted'.sys[i][2]]
    /\ mic_samples' = [i \in 1..Len(mic_samples) |-> plotted'.mic[i][2]]
    /\ pc' = "idle"
    /\ tick0' = NoTick
    /\ UNCHANGED <<pc_main, streams, chans, cbs, sample, res_samples, history, swaps, aux>>

\* main.rs:130-176  both plots are drawn from point lists built off the
\* windows; ctx.request_repaint() asks for the next frame
Render ==
    /\ pc = "render"
    /\ plotted' = [sys |-> PlotPoints(sys_samples), mic |-> PlotPoints(mic_samples)]
    /\ pc' = "idle"
    /\ tick0' = NoTick
    /\ UNCHANGED <<pc_main, streams, chans, cbs, sample, windows, history, swaps, aux>>

(***************************************************************************)
(* switch_source (spec.md 4.2 swap, 5, 6).  main.rs keeps what a switch    *)
(* needs (AudioStream.source, the senders in MyApp) but has no switch      *)
(* itself; the operation is modelled from its specification, on top of     *)
(* build_audio_stream as main.rs defines it.  mic_stream is the switchable *)
(* binding.                                                                *)
(***************************************************************************)
\* current_source(): the Source Identity of the switchable binding
current_source == mic_stream.source

Other(source) == IF source = "Microphone" THEN "SystemOutput" ELSE "Microphone"

\* a swap that hands the new binding the old channel's sender
ReuseChannel(gen) == gen

\* spec.md 5: the replacement channel is constructed first; it is a new channel
NewChannel(gen) == gen + 1

\* switch_source(): open a binding for the other identity and start it; only
\* on success does it replace the old binding, whose stream is then released
\* (a callback of the old stream that is still running keeps its old sender).
\* The history counts of samples (mic_sent, mic_recvd) span both channels.
SwitchSource ==
    /\ pc_main = "running"
    /\ pc = "idle"
    /\ swaps < MaxSwaps
    /\ mic_stream.state = "playing"
    /\ stale_cb.data = <<>>
    /\ swaps' = swaps + 1
    /\ \E b \in Backends, started \in BOOLEAN :
         LET new    == Other(mic_stream.source)
             opened == build_audio_stream(new, b)
             r      == IF opened = "Ok" /\ ~started THEN "Err" ELSE opened
         IN  /\ last_open' = [source |-> new, backend |-> b, result |-> opened]
             /\ last_switch' = [before |-> mic_stream.source, result |-> r]
             /\ CASE r = "Ok" ->
                       /\ mic_stream' = [AudioStream(new) EXCEPT !.state = "playing"]
                       /\ mic_gen' = NewChannel(mic_gen)
                       /\ mic_chan' = IF mic_gen' = mic_gen THEN mic_chan ELSE <<>>
                       /\ stale_cb' = [gen |-> mic_gen, data |-> mic_cb, sent |-> 0]
                       /\ mic_cb' = <<>>
                       /\ UNCHANGED <<pc_main, sys_stream>>
                  [] r = "Err" ->
                       UNCHANGED <<pc_main, sys_stream, mic_stream, mic_gen, mic_chan, stale_cb, mic_cb>>
                  [] r = "Panic" ->
                       /\ pc_main' = AfterResult(r, pc_main)
                       /\ sys_stream' = Dropped(sys_stream, r)
                       /\ mic_stream' = Dropped(mic_stream, r)
                       /\ UNCHANGED <<mic_gen, mic_chan, stale_cb, mic_cb>>
    /\ UNCHANGED <<sys_chan, sys_cb, pc, sample, windows, history, tick0, aux, plotted>>

\* main.rs:31-33 in a callback of the released binding: one more iteration of
\* its loop, sending on the channel it was built with
StaleSend ==
    /\ stale_cb.data # <<>>
    /\ LET connected == ReceiversAlive /\ stale_cb.gen = mic_gen IN
         /\ mic_chan' = Send(mic_chan, Head(stale_cb.data), connected)
         /\ mic_sent' = IF connected THEN Append(mic_sent, Head(stale_cb.data)) ELSE mic_sent
         /\ tick0' = IF connected THEN Disturbed(tick0) ELSE tick0
    /\ stale_cb' = [stale_cb EXCEPT !.data = Tail(@), !.sent = 1]
    /\ UNCHANGED <<pc_main, streams, sys_chan, mic_gen, sys_cb, mic_cb, pc, sample, windows,
                   sys_sent, sys_recvd, mic_recvd, swaps, aux, plotted>>

Next ==
    \/ MainBuildSys
    \/ MainBuildMic
    \/ MainPlaySys
    \/ MainPlayMic
    \/ MainRunNative
    \/ SysCallback
    \/ SysSend
    \/ MicCallback
    \/ MicSend
    \/ UpdateBegin
    \/ SysTryRecv
    \/ SysEvict
    \/ SysPush
    \/ MicTryRecv
    \/ MicEvict
    \/ MicPush
    \/ MicResidual
    \/ Render

Spec == Init /\ [][Next]_vars

\* The program with switch_source, from the state main reaches when both
\* streams were built and started (MainRunNative done), while the
\* system-output device stays silent: the switchable binding is the only
\* one that delivers samples.
InitSwap ==
    /\ pc_main = "running"
    /\ sys_stream = [AudioStream("SystemOutput") EXCEPT !.state = "playing"]
    /\ mic_stream = [AudioStream("Microphone") EXCEPT !.state = "playing"]
    /\ last_open = [source |-> "Microphone", backend |-> "ok", result |-> "Ok"]
    /\ last_switch = [before |-> "none", result |-> "none"]
    /\ sys_chan = <<>>
    /\ mic_chan = <<>>
    /\ mic_gen = 0
    /\ sys_cb = <<>>
    /\ mic_cb = <<>>
    /\ stale_cb = NoCb
    /\ pc = "idle"
    /\ sample = 0
    /\ sys_samples = <<>>
    /\ mic_samples = <<>>
    /\ res_samples = <<>>
    /\ sys_sent = <<>>
    /\ mic_sent = <<>>
    /\ sys_recvd = <<>>
    /\ mic_recvd = <<>>
    /\ tick0 = NoTick
    /\ swaps = 0
    /\ live = FALSE
    /\ stderr = 0
    /\ discarded = 0
    /\ plotted = NoPlot

NextSwap ==
    \/ MicCallback
    \/ MicSend
    \/ UpdateBegin
    \/ SysTryRecv
    \/ MicTryRecv
    \/ MicEvict
    \/ MicPush
    \/ MicResidual
    \/ Render
    \/ SwitchSource
    \/ StaleSend

SpecSwap == InitSwap /\ [][NextSwap]_vars

\* The program after a successful startup, with a system-output device that
\* delivers samples without end while the microphone stays silent; both
\* streams may report errors.  No history of the samples is kept (the state
\* stays finite), and a callback is invoked only while its channel holds
\* fewer than MaxQueue samples.
InitLive ==
    /\ pc_main = "running"
    /\ sys_stream = [AudioStream("SystemOutput") EXCEPT !.state = "playing"]
    /\ mic_stream = [AudioStream("Microphone") EXCEPT !.state = "playing"]
    /\ last_open = [source |-> "Microphone", backend |-> "ok", result |-> "Ok"]
    /\ last_switch = [before |-> "none", result |-> "none"]
    /\ sys_chan = <<>>
    /\ mic_chan = <<>>
    /\ mic_gen = 0
    /\ sys_cb = <<>>
    /\ mic_cb = <<>>
    /\ stale_cb = NoCb
    /\ pc = "idle"
    /\ sample = 0
    /\ sys_samples = <<>>
    /\ mic_samples = <<>>
    /\ res_samples = <<>>
    /\ sys_sent = <<>>
    /\ mic_sent = <<>>
    /\ sys_recvd = <<>>
    /\ mic_recvd = <<>>
    /\ tick0 = NoTick
    /\ swaps = 0
    /\ live = TRUE
    /\ stderr = 0
    /\ discarded = 0
    /\ plotted = NoPlot

\* the steps of the UI thread
Update ==
    \/ UpdateBegin
    \/ SysTryRecv
    \/ SysEvict
    \/ SysPush
    \/ MicTryRecv
    \/ MicEvict
    \/ MicPush
    \/ MicResidual
    \/ Render

NextLive ==
    \/ SysCallback
    \/ SysSend
    \/ SysError
    \/ MicError
    \/ UpdateBegin
    \/ SysTryRecv
    \/ SysEvict
    \/ SysPush
    \/ MicTryRecv
    \/ Render

\* The UI thread is scheduled: whenever a step of update is possible, one is
\* eventually taken.  Nothing is assumed of the backend threads.
SpecLive == InitLive /\ [][NextLive]_vars /\ WF_vars(Update)

(***************************************************************************)
(* Properties                                                              *)
(***************************************************************************)
Min(a, b) == IF a < b THEN a ELSE b

\* the last n elements of s (all of s when it is shorter)
LastN(s, n) == SubSeq(s, Len(s) - Min(Len(s), n) + 1, Len(s))

\* the samples pushed into each window so far: those received, less the one
\* update holds in `sample` and has not pushed yet
SysPushed ==
    IF pc \in {"sys_evict", "sys_push"} THEN SubSeq(sys_recvd, 1, Len(sys_recvd) - 1) ELSE sys_recvd
MicPushed ==
    IF pc \in {"mic_evict", "mic_push"} THEN SubSeq(mic_recvd, 1, Len(mic_recvd) - 1) ELSE mic_recvd

InUpdate == pc \notin {"not_started", "idle"}

\* C1: in every reachable state, between any two steps of the callbacks and
\* of update, each of the three windows holds at most Capacity samples.
WindowsBounded ==
    /\ Len(sys_samples) <= Capacity
    /\ Len(mic_samples) <= Capacity
    /\ Len(res_samples) <= Capacity

\* C1 witness: in the middle of an update, with one more microphone sample
\* received and about to be pushed, all three windows are full and the
\* system-output window has already evicted a sample.
WindowsFullMidUpdate ==
    /\ pc = "mic_evict"
    /\ Len(sys_samples) = Capacity
    /\ Len(mic_samples) = Capacity
    /\ Len(res_samples) = Capacity
    /\ Len(sys_recvd) > Capacity

\* C2: after k pushes into a window that started empty, the window holds the
\* last min(k, Capacity) pushed samples, oldest first (between the eviction
\* and the push of one sample there is room for the sample being pushed).
WindowIsLastPushed ==
    /\ sys_samples = LastN(SysPushed, IF pc = "sys_push" THEN Capacity - 1 ELSE Capacity)
    /\ mic_samples = LastN(MicPushed, IF pc = "mic_push" THEN Capacity - 1 ELSE Capacity)
    /\ pc # "sys_push" => Len(sys_samples) = Min(Len(SysPushed), Capacity)
    /\ pc # "mic_push" => Len(mic_samples) = Min(Len(MicPushed), Capacity)

\* C2 witness: Capacity + 1 samples were pushed within one update, the first
\* ever; the window holds pushes 2..Capacity+1 and the first push, a sample
\* unlike the second, is gone.
WindowOverflowedInOneUpdate ==
    /\ pc = "sys_recv"
    /\ tick0.fresh
    /\ Len(sys_recvd) = Capacity + 1
    /\ sys_samples = SubSeq(sys_recvd, 2, Capacity + 1)
    /\ sys_recvd[1] # sys_recvd[2]

\* C3: try_recv hands out the samples sent on a channel each once and in send
\* order (what was received, followed by what is queued, is what was sent),
\* and the drain loop leaves only when the channel is empty.
ChannelIsFifo ==
    /\ [](/\ sys_recvd \o sys_chan = sys_sent
          /\ mic_recvd \o mic_chan = mic_sent)
    /\ [][/\ (pc = "sys_recv" /\ pc' = "mic_recv") => (sys_chan = <<>> /\ sys_recvd = sys_sent)
          /\ (pc = "mic_recv" /\ pc' = "render") => (mic_chan = <<>> /\ mic_recvd = mic_sent)]_vars

\* C3 witness: the system-output loop has just reported empty in an update
\* before which nothing had been received and during which nothing was sent:
\* every sample was sent before the first try_recv, and they differ.
DrainedWhatWasSentBefore ==
    /\ pc = "mic_recv"
    /\ tick0.fresh
    /\ tick0.quiet
    /\ Len(sys_sent) >= 2
    /\ sys_sent[1] # sys_sent[2]
    /\ sys_recvd = sys_sent
    /\ sys_chan = <<>>

\* C4: no step of an update that begins with both channels empty and during
\* which no sample is sent, its first step included, changes any of the three
\* windows.
EmptyTickIsNoOp ==
    [][(\/ pc = "idle" /\ pc' = "sys_recv" /\ tick0'.empty
        \/ InUpdate /\ tick0.empty /\ tick0.quiet) => windows' = windows]_vars

\* C4 witness: such an update is about to finish, with samples in all windows.
EmptyTickOverFullWindows ==
    /\ pc = "render"
    /\ tick0.empty
    /\ tick0.quiet
    /\ sys_samples # <<>>
    /\ mic_samples # <<>>
    /\ res_samples # <<>>

InMicLoop == pc \in {"mic_recv", "mic_evict", "mic_push", "mic_residual"}

\* C5: the residual pushed for a drained microphone sample is that sample
\* minus the oldest sample then in the system-output window, or the sample
\* itself when that window is empty; so a first update that drains some
\* system-output samples and one microphone sample m ends with the residual
\* window holding just m minus the oldest system-output sample.
ResidualIsMicMinusOldest ==
    /\ [][(pc = "mic_residual" /\ pc' = "mic_recv") =>
            /\ res_samples' # <<>>
            /\ res_samples'[Len(res_samples')] =
                 IF sys_samples = <<>> THEN sample ELSE sample - sys_samples[1]]_vars
    /\ []((pc = "render" /\ tick0.fresh /\ sys_recvd # <<>> /\ Len(mic_recvd) = 1) =>
            /\ sys_samples = LastN(sys_recvd, Capacity)
            /\ mic_samples = mic_recvd
            /\ res_samples = <<mic_recvd[1] - sys_samples[1]>>)

\* C5 witness: with <<3, 6>> sent on the system-output channel and <<6>> on the
\* microphone channel before the first update, that update ends with the
\* windows <<3, 6>>, <<6>> and <<6 - 3>>.
ResidualScenario ==
    /\ pc = "render"
    /\ tick0.fresh
    /\ tick0.quiet
    /\ sys_sent = <<3, 6>>
    /\ mic_sent = <<6>>
    /\ sys_samples = <<3, 6>>
    /\ mic_samples = <<6>>
    /\ res_samples = <<3>>

\* C6: one residual is appended per microphone sample drained, so between
\* the processing of two microphone samples the residual window is as long as
\* the microphone window, namely min(samples drained, Capacity).
ResidualPerMicSample ==
    pc \notin {"mic_evict", "mic_push", "mic_residual"} =>
        /\ Len(res_samples) = Len(mic_samples)
        /\ Len(res_samples) = Min(Len(mic_recvd), Capacity)

\* C6 witness: every microphone sample was drained while the system-output
\* window was empty, more of them than a window holds; the residual window
\* is full and equals the microphone window.
ResidualsWithoutSystemOutput ==
    /\ pc = "render"
    /\ sys_recvd = <<>>
    /\ Len(mic_recvd) > Capacity
    /\ Len(res_samples) = Capacity
    /\ res_samples = mic_samples

\* C7: while update is in its microphone loop, every system-output sample
\* that was queued when update began has been received and pushed, and the
\* microphone loop is only entered from the system-output loop observing its
\* channel empty.
SysDrainedBeforeMic ==
    /\ [](InMicLoop => (tick0.sys_queued = 0 /\ sys_samples = LastN(sys_recvd, Capacity)))
    /\ [][(~InMicLoop /\ InMicLoop') => (pc = "sys_recv" /\ sys_chan = <<>>)]_vars

\* C7 witness: a microphone sample is being processed in an update that began
\* with two or more system-output samples queued (none received before, none
\* sent since).
MicAfterQueuedSys ==
    /\ pc = "mic_evict"
    /\ tick0.fresh
    /\ tick0.quiet
    /\ Len(sys_recvd) >= 2

\* C8: a build_audio_stream call that meets no default device, a failed
\* configuration or a rejected stream returns Err to its caller and does not
\* bring the process down.
OpenFailureIsReported ==
    last_open.backend # "ok" => (last_open.result = "Err" /\ pc_main # "panicked")

\* C9: after a switch_source that failed, the process runs on and the
\* switchable binding is the one from before the call, still playing.
SwitchFailureKeepsBinding ==
    last_switch.result \in {"Err", "Panic"} =>
        /\ pc_main = "running"
        /\ mic_stream = [source |-> last_switch.before, state |-> "playing"]

\* C10: a successful switch_source from Microphone makes current_source
\* SystemOutput, and a sample that a callback of the released binding sends
\* afterwards reaches no channel the consumer reads and no window.
SwapIsolatesOldChannel ==
    [][/\ (swaps' # swaps /\ last_switch'.result = "Ok" /\ last_switch'.before = "Microphone")
            => current_source' = "SystemOutput"
       /\ (stale_cb.data # <<>> /\ stale_cb' # stale_cb)
            => UNCHANGED <<sys_chan, mic_chan, windows>>]_vars

\* C10 witness: after a successful switch from Microphone, the released
\* binding's callback has sent its remaining samples, the new binding has
\* delivered, and an update has drained the new channel into the window.
StaleSendAfterSwap ==
    /\ last_switch = [before |-> "Microphone", result |-> "Ok"]
    /\ current_source = "SystemOutput"
    /\ stale_cb.sent = 1
    /\ stale_cb.data = <<>>
    /\ pc = "render"
    /\ mic_samples # <<>>

\* C11: a step of a data callback's loop is always possible (send does not
\* block), takes exactly one sample off the callback's buffer and goes on to
\* the rest, leaves the process running as it was, the windows and the other
\* channel unchanged, and, when the receiver is gone, its own channel too.
SendNeverBlocksNorFails ==
    /\ [](sys_cb # <<>> => ENABLED SysSend)
    /\ [](mic_cb # <<>> => ENABLED MicSend)
    /\ [][(sys_cb # <<>> /\ sys_cb' # sys_cb) =>
            /\ sys_cb' = Tail(sys_cb)
            /\ UNCHANGED <<pc_main, windows, mic_chan>>
            /\ ~ReceiversAlive => UNCHANGED <<sys_chan, sys_sent>>]_vars
    /\ [][(mic_cb # <<>> /\ mic_cb' # mic_cb) =>
            /\ mic_cb' = Tail(mic_cb)
            /\ UNCHANGED <<pc_main, windows, sys_chan>>
            /\ ~ReceiversAlive => UNCHANGED <<mic_chan, mic_sent>>]_vars

\* a send was discarded after the receivers were dropped, and the callback
\* still has a sample of its buffer to go
DiscardedSendMidCallback ==
    /\ ~ReceiversAlive
    /\ discarded > 0
    /\ sys_cb # <<>>
    /\ sys_chan # <<>>

\* the consumer never waits: inside update a step of update is always possible,
\* and a drain loop that finds its channel empty leaves the loop at once
UpdateNeverWaits ==
    /\ [](InUpdate => ENABLED Update)
    /\ [][(pc = "sys_recv" /\ sys_chan = <<>> /\ pc' # pc) => pc' = "mic_recv"]_vars
    /\ [][(pc = "mic_recv" /\ mic_chan = <<>> /\ pc' # pc) => pc' = "render"]_vars

\* a send was accepted by one of the two channels
SendAccepted == Len(sys_chan') > Len(sys_chan) \/ Len(mic_chan') > Len(mic_chan)

\* C12 as claimed: the consumer never waits, and every update that starts
\* finishes, whatever the callbacks send meanwhile.
TickAlwaysFinishes ==
    /\ UpdateNeverWaits
    /\ InUpdate ~> (pc = "idle")

\* C12: the consumer never waits, and every update that starts finishes unless
\* sends keep being accepted for ever (a drain loop ends only when it finds
\* its channel empty).
TickFinishesUnlessFedForever ==
    /\ UpdateNeverWaits
    /\ \/ []<><<SendAccepted>>_vars
       \/ InUpdate ~> (pc = "idle")

\* the system-output drain loop has received everything that was queued when
\* update began and still finds a sample: one sent while it was draining
FedWhileDraining ==
    /\ pc = "sys_recv"
    /\ tick0.sys_queued = 0
    /\ ~tick0.quiet
    /\ sys_chan # <<>>
    /\ Len(sys_samples) = Capacity

\* C13: a step of a producer (a data callback being invoked or sending a
\* sample, an error callback printing) changes no window, nothing of update
\* and no channel but the producer's own; an error is printed and changes
\* nothing else, so the stream keeps playing, a running callback keeps its
\* buffer and the process goes on.  Only a step of update changes a window.
OnlyUpdateMutatesWindows ==
    /\ [][sys_cb' # sys_cb => UNCHANGED <<windows, pc, sample, plotted, mic_chan, mic_cb, streams>>]_vars
    /\ [][mic_cb' # mic_cb => UNCHANGED <<windows, pc, sample, plotted, sys_chan, sys_cb, streams>>]_vars
    /\ [][stderr' # stderr =>
            UNCHANGED <<pc_main, streams, chans, cbs, windows, pc, sample, plotted>>]_vars
    /\ [][windows' # windows => (InUpdate /\ pc' # pc /\ UNCHANGED <<cbs, stderr>>)]_vars

\* an error was printed, and afterwards the stream still delivers: a callback
\* is sending, update is draining and the window holds samples
DeliveryGoesOnAfterError ==
    /\ stderr > 0
    /\ sys_stream.state = "playing"
    /\ sys_cb # <<>>
    /\ pc = "sys_push"
    /\ sys_samples # <<>>

\* C14: drawing the plots leaves the windows and the channels as they were; the
\* line of a plot has one point per resident sample, oldest first, at x = its
\* index from 0 and y = the sample times 1000 clamped to [-400, 400].
RenderLeavesWindowsAlone ==
    [][(pc = "render" /\ pc' # pc) =>
         /\ UNCHANGED <<windows, chans, history>>
         /\ Len(plotted'.sys) = Len(sys_samples)
         /\ Len(plotted'.mic) = Len(mic_samples)
         /\ \A i \in 1..Len(sys_samples) :
              /\ plotted'.sys[i][1] = i - 1
              /\ plotted'.sys[i][2] * Scale =
                    clamp(sys_samples[i] * Gain, -YLimit * Scale, YLimit * Scale)
         /\ \A i \in 1..Len(mic_samples) :
              /\ plotted'.mic[i][1] = i - 1
              /\ plotted'.mic[i][2] * Scale =
                    clamp(mic_samples[i] * Gain, -YLimit * Scale, YLimit * Scale)]_vars

\* a frame was drawn from a full system-output window holding 0.3 then 0.6:
\* the line shows 300 then the clamped 400, the window still holds the samples
PlottedScaledAndClamped ==
    /\ pc = "idle"
    /\ sys_samples = <<3, 6>>
    /\ plotted.sys = <<<<0, 300>>, <<1, 400>>>>
    /\ Len(sys_recvd) > Capacity
    /\ mic_samples # <<>>
    /\ Len(plotted.mic) = Len(mic_samples)

\* C15: what a window holds is the tail of a prefix of what its source's
\* callbacks have sent, the prefix of the samples pushed so far: none is
\* missing, repeated or out of place.  When update has drained both channels
\* and no send was accepted since it began, both channels are empty and each
\* window is the tail of everything sent.
NoSampleLostOrReordered ==
    /\ Len(SysPushed) <= Len(sys_sent)
    /\ Len(MicPushed) <= Len(mic_sent)
    /\ sys_samples = LastN(SubSeq(sys_sent, 1, Len(SysPushed)),
                           IF pc = "sys_push" THEN Capacity - 1 ELSE Capacity)
    /\ mic_samples = LastN(SubSeq(mic_sent, 1, Len(MicPushed)),
                           IF pc = "mic_push" THEN Capacity - 1 ELSE Capacity)
    /\ (pc = "render" /\ tick0.quiet) =>
          /\ sys_chan = <<>>
          /\ mic_chan = <<>>
          /\ Len(SysPushed) = Len(sys_sent)
          /\ Len(MicPushed) = Len(mic_sent)
          /\ sys_samples = LastN(sys_sent, Capacity)
          /\ mic_samples = LastN(mic_sent, Capacity)

\* a later update, begun with samples queued, has drained both channels while
\* the producers were silent; the system-output source has overflowed its
\* window with samples that differ
AllSentArePushed ==
    /\ pc = "render"
    /\ tick0.quiet
    /\ ~tick0.fresh
    /\ ~tick0.empty
    /\ Len(sys_sent) > Capacity
    /\ sys_sent[1] # sys_sent[Len(sys_sent)]
    /\ mic_sent # <<>>

InSysLoop == pc \in {"sys_recv", "sys_evict", "sys_push"}

\* C16: the steps of update's first loop take their sample from the
\* system-output channel, push it into the system-output window and change
\* neither the microphone channel nor the microphone and residual windows;
\* the steps of the second loop take their sample from the microphone channel,
\* push it into the microphone window and change neither the system-output
\* channel nor the system-output window.
StreamsRoutedIndependently ==
    /\ [][(InSysLoop /\ pc' # pc) => UNCHANGED <<mic_chan, mic_samples, res_samples>>]_vars
    /\ [][(InMicLoop /\ pc' # pc) => UNCHANGED <<sys_chan, sys_samples>>]_vars
    /\ [][(pc = "sys_recv" /\ pc' = "sys_evict") =>
            (sample' = Head(sys_chan) /\ sys_chan' = Tail(sys_chan))]_vars
    /\ [][(pc = "mic_recv" /\ pc' = "mic_evict") =>
            (sample' = Head(mic_chan) /\ mic_chan' = Tail(mic_chan))]_vars
    /\ [][(pc = "sys_push" /\ pc' # pc) => sys_samples' = Append(sys_samples, sample)]_vars
    /\ [][(pc = "mic_push" /\ pc' # pc) => mic_samples' = Append(mic_samples, sample)]_vars

\* the microphone loop has evicted from its full window and pushed, next to a
\* full system-output window that holds other samples than the microphone's
MicPushedBesideFullSysWindow ==
    /\ pc = "mic_residual"
    /\ Len(mic_recvd) > Capacity
    /\ Len(sys_samples) = Capacity
    /\ Len(mic_samples) = Capacity
    /\ sys_samples # mic_samples
    /\ sys_chan # <<>>

====
